---- MODULE Spec2Model ----
(***************************************************************************)
(* Model of prometheus_wireguard_exporter's scrape handler,               *)
(* perform_request (src/main.rs).  One frame per in-flight request holds  *)
(* the handler's local variables; the Options value is shared, read-only. *)
(* Text is a sequence of tokens: "\t", "\n", "\r" are the separators,     *)
(* BAD is a byte that is not valid UTF-8, everything else is payload.     *)
(***************************************************************************)
EXTENDS Integers, Sequences, FiniteSets, TLC

VARIABLES options, frame, hist

vars == <<options, frame, hist>>

\* ------------------------------------------------------------------ bounds
MaxInterfaces == 2
MaxLen == 4

\* ------------------------------------------------------------- Option<T>
None == <<>>
Some(x) == <<x>>
IsSome(o) == o # <<>>
Unwrap(o) == o[1]

\* ------------------------------------------------------------------ text
TAB == "\t"
NL == "\n"
CR == "\r"
BAD == "\\xFF"

Scrapes == {"s1", "s2"}
InterfaceNames == {"all", "wg0"}

RECURSIVE Concat(_)
Concat(ss) == IF ss = <<>> THEN <<>> ELSE Head(ss) \o Concat(Tail(ss))

\* position of the first occurrence of c in s, 0 when absent
RECURSIVE FindFrom(_, _, _)
FindFrom(s, c, i) ==
  IF i > Len(s) THEN 0
  ELSE IF s[i] = c THEN i ELSE FindFrom(s, c, i + 1)

\* str::lines(): split at "\n"; a "\r" right before the "\n" belongs to the
\* terminator; a final piece without terminator is a line unless it is empty.
RECURSIVE lines(_)
lines(s) ==
  IF s = <<>> THEN <<>>
  ELSE LET n == FindFrom(s, NL, 1) IN
       IF n = 0 THEN <<s>>
       ELSE LET raw == SubSeq(s, 1, n - 1)
                l == IF raw # <<>> /\ raw[Len(raw)] = CR
                     THEN SubSeq(raw, 1, Len(raw) - 1) ELSE raw
            IN <<l>> \o lines(SubSeq(s, n + 1, Len(s)))

\* the loop of main.rs 141-143 with a mistake: empty lines are skipped
RECURSIVE InjectLinesSkipEmpty(_, _)
InjectLinesSkipEmpty(interface_to_handle, ls) ==
  IF ls = <<>> THEN <<>>
  ELSE (IF Head(ls) = <<>> THEN <<>>
        ELSE <<interface_to_handle, TAB>> \o Head(ls) \o <<NL>>)
       \o InjectLinesSkipEmpty(interface_to_handle, Tail(ls))

\* result.push_str(&format!("{}\t{}\n", interface_to_handle, s)) for each line
RECURSIVE InjectLines(_, _)
InjectLines(interface_to_handle, ls) ==
  IF ls = <<>> THEN <<>>
  ELSE <<interface_to_handle, TAB>> \o Head(ls) \o <<NL>>
       \o InjectLines(interface_to_handle, Tail(ls))

\* main.rs 138-147
InjectInterface(interface_to_handle, output_stdout_str) ==
  IF interface_to_handle # "all"
  THEN InjectLines(interface_to_handle, lines(output_stdout_str))
  ELSE output_stdout_str

\* String::from_utf8
from_utf8(bytes) ==
  IF \E i \in 1..Len(bytes) : bytes[i] = BAD
  THEN [ok |-> FALSE, val |-> <<>>]
  ELSE [ok |-> TRUE, val |-> bytes]

\* ------------------------------------------------- Result<T, E> and maps
Ok(v) == [ok |-> TRUE, val |-> v]
Err(e) == [ok |-> FALSE, val |-> e]

EmptyMap == <<>>
Insert(m, k, v) == [x \in (DOMAIN m) \cup {k} |-> IF x = k THEN v ELSE m[x]]
\* HashMap::extend: every pair of `more` is inserted, replacing an equal key
Extend(m, more) ==
  [x \in (DOMAIN m) \cup (DOMAIN more) |-> IF x \in DOMAIN more THEN more[x] ELSE m[x]]

\* ------------------------------------------- peer metadata (PeerEntry)
PeerEntry(pk, ips, desc) ==
  [public_key |-> pk, allowed_ips |-> ips, friendly_description |-> desc]
Name(n) == <<"Name", n>>
Labels(l) == <<"Labels", l>>

\* a config blob is a sequence of sections; a section the parser cannot read
\* is kind "garbage"
PeerSection(pk, ips, comment) ==
  [kind |-> "peer", public_key |-> pk, allowed_ips |-> ips, comment |-> comment]
GarbageSection ==
  [kind |-> "garbage", public_key |-> "", allowed_ips |-> "", comment |-> None]

RECURSIVE InsertSections(_, _)
InsertSections(m, secs) ==
  IF secs = <<>> THEN Ok(m)
  ELSE LET s == Head(secs) IN
       IF s.kind # "peer" THEN Err("InvalidConfig")
       ELSE IF s.public_key \in DOMAIN m THEN Err("InvalidConfig")
       ELSE InsertSections(
              Insert(m, s.public_key,
                     PeerEntry(s.public_key, s.allowed_ips, s.comment)),
              Tail(secs))

\* wireguard_config::peer_entry_hashmap_try_from
peer_entry_hashmap_try_from(contents) == InsertSections(EmptyMap, contents)

\* a JSON text: well formed or not, and the members of its top-level object
JsonObject(members) == [wellformed |-> TRUE, members |-> members]
JsonMalformed == [wellformed |-> FALSE, members |-> <<>>]

RECURSIVE InsertMembers(_, _)
InsertMembers(m, members) ==
  IF members = <<>> THEN m
  ELSE InsertMembers(Insert(m, Head(members)[1], Head(members)[2]), Tail(members))

\* serde_json::from_str::<HashMap<String, String>>
from_str(cfg) ==
  IF cfg.wellformed THEN Ok(InsertMembers(EmptyMap, cfg.members))
  ELSE Err("InvalidNameMapping")

\* main.rs 65-76 / 81-95 with a mistake: the key's name is lost
NamesAsPeerEntriesNoName(more_peer_names) ==
  [k \in DOMAIN more_peer_names |-> PeerEntry(k, "", None)]

\* main.rs 65-76 / 81-95: every (public_key, friendly_name) pair becomes a
\* PeerEntry with allowed_ips "" and the plain-name description
NamesAsPeerEntries(more_peer_names) ==
  [k \in DOMAIN more_peer_names |->
     PeerEntry(k, "", Some(Name(more_peer_names[k])))]

\* main.rs 63-98 with a mistake: the last arm yields an empty mapping
CombinePeerMapsDefault(peer_entry_hashmap, more_peer_names) ==
  CASE IsSome(peer_entry_hashmap) /\ IsSome(more_peer_names) ->
         Some(Extend(Unwrap(peer_entry_hashmap),
                     NamesAsPeerEntries(Unwrap(more_peer_names))))
    [] IsSome(peer_entry_hashmap) /\ ~IsSome(more_peer_names) -> peer_entry_hashmap
    [] ~IsSome(peer_entry_hashmap) /\ IsSome(more_peer_names) ->
         Some(NamesAsPeerEntries(Unwrap(more_peer_names)))
    [] OTHER -> Some(EmptyMap)

\* main.rs 63-98
CombinePeerMaps(peer_entry_hashmap, more_peer_names) ==
  CASE IsSome(peer_entry_hashmap) /\ IsSome(more_peer_names) ->
         Some(Extend(Unwrap(peer_entry_hashmap),
                     NamesAsPeerEntries(Unwrap(more_peer_names))))
    [] IsSome(peer_entry_hashmap) /\ ~IsSome(more_peer_names) -> peer_entry_hashmap
    [] ~IsSome(peer_entry_hashmap) /\ IsSome(more_peer_names) ->
         Some(NamesAsPeerEntries(Unwrap(more_peer_names)))
    [] OTHER -> None

\* ------------------------------------------- snapshot (wireguard::WireGuard)
\* split a line into its tab-separated fields
RECURSIVE SplitTab(_)
SplitTab(l) ==
  LET n == FindFrom(l, TAB, 1) IN
  IF n = 0 THEN <<l>>
  ELSE <<SubSeq(l, 1, n - 1)>> \o SplitTab(SubSeq(l, n + 1, Len(l)))

\* a snapshot maps an interface name (the first field) to its peers' keys
RECURSIVE ParseLines(_, _)
ParseLines(snap, ls) ==
  IF ls = <<>> THEN Ok(snap)
  ELSE LET fs == SplitTab(Head(ls)) IN
       CASE Len(fs) = 5 ->
              ParseLines(IF fs[1] \in DOMAIN snap THEN snap
                         ELSE Insert(snap, fs[1], <<>>), Tail(ls))
         [] Len(fs) = 9 ->
              ParseLines(Insert(snap, fs[1],
                                (IF fs[1] \in DOMAIN snap THEN snap[fs[1]] ELSE <<>>)
                                \o <<fs[2]>>), Tail(ls))
         [] OTHER -> Err("MalformedRecord")

\* WireGuard::try_from(&str)
try_from(text) == ParseLines(EmptyMap, lines(text))

\* WireGuard::merge: the outcomes of inserting every interface of `incoming`
\* into `base`.  An interface `base` already holds ends the merge with
\* DuplicateInterface; the interfaces inserted before it (the map's iteration
\* order is unspecified) stay inserted.
merge(base, incoming) ==
  LET dup == (DOMAIN base) \cap (DOMAIN incoming)
      fresh == (DOMAIN incoming) \ (DOMAIN base)
      With(done) == [i \in (DOMAIN base) \cup done |->
                       IF i \in DOMAIN base THEN base[i] ELSE incoming[i]]
  IN IF dup = {} THEN {[ok |-> TRUE, val |-> "merged", base |-> With(fresh)]}
     ELSE {[ok |-> FALSE, val |-> "DuplicateInterface", base |-> With(done)] :
             done \in SUBSET fresh}

\* the text of a field: public keys and interface names are single tokens
FieldText(f) == IF Len(f) = 1 THEN f[1] ELSE ""

\* WireGuard::render_with_names: one peer-info line per peer, joined against
\* the metadata by public key
render_with_names(wg, pehm) ==
  UNION {{[interface |-> i, public_key |-> wg[i][n],
           friendly |-> IF IsSome(pehm) /\ FieldText(wg[i][n]) \in DOMAIN Unwrap(pehm)
                        THEN Unwrap(pehm)[FieldText(wg[i][n])].friendly_description
                        ELSE None] :
            n \in 1..Len(wg[i])} : i \in DOMAIN wg}

\* --------------------------------------------------------- the environment
\* sequences over S of length lo..hi
SeqsOf(S, lo, hi) == UNION {[1..n -> S] : n \in lo..hi}

\* Options (options.rs): what the command line can set
InterfaceLists == {None} \cup {Some(l) : l \in SeqsOf(InterfaceNames, 0, MaxInterfaces)}
ConfigFileLists == {None, Some(<<"a.conf">>), Some(<<"a.conf", "b.conf">>)}
OptionValues ==
  [interfaces : InterfaceLists,
   extract_names_config_files : ConfigFileLists,
   peer_names_file : {None, Some("names.json")},
   prepend_sudo : BOOLEAN]

\* what std::fs::read_to_string can return for a config file
ConfigBlobs ==
  {<<>>,
   <<PeerSection("K1", "10.0.0.0/24", Some(Name("Alice")))>>,
   <<PeerSection("K1", "10.0.0.0/24", Some(Labels("site"))),
     PeerSection("K2", "10.0.1.0/24", None)>>,
   <<GarbageSection>>}
ConfigFileReads == {Err("io")} \cup {Ok(b) : b \in ConfigBlobs}

\* what std::fs::read_to_string can return for the peer names file
NameJsons ==
  {JsonMalformed,
   JsonObject(<<>>),
   JsonObject(<< <<"K1", "Bob">> >>),
   JsonObject(<< <<"K1", "Bob">>, <<"K2", "Carol">>, <<"K1", "Dave">> >>)}
NamesFileReads == {Err("io")} \cup {Ok(j) : j \in NameJsons}

\* dump lines as `wg show <interface> dump` prints them (no interface column)
RECURSIVE JoinTab(_)
JoinTab(fs) ==
  IF Len(fs) = 1 THEN <<fs[1]>> ELSE <<Head(fs), TAB>> \o JoinTab(Tail(fs))
DeviceLine == JoinTab(<<"priv", "pub", "51820", "off">>) \o <<NL>>
PeerLine(pk) ==
  JoinTab(<<pk, "none", "(none)", "(none)", "0", "0", "0", "off">>) \o <<NL>>
\* and as `wg show all dump` prints them
AllDeviceLine(i) == <<i, TAB>> \o DeviceLine
AllPeerLine(i, pk) == <<i, TAB>> \o PeerLine(pk)

StdoutSamples ==
  {<<>>,
   DeviceLine,
   DeviceLine \o PeerLine("K1"),
   AllDeviceLine("wg0") \o AllPeerLine("wg0", "K1"),
   AllDeviceLine("wg0") \o AllDeviceLine("wg1") \o AllPeerLine("wg1", "K2"),
   <<"usage", NL>>,
   <<BAD>>}
StderrSamples == {<<>>, <<"error", NL>>, <<BAD>>}

\* what Command::output() can return: a spawn error, or the finished process
ToolOutputs ==
  {Err("io")} \cup
  {Ok([status |-> st, stdout |-> so, stderr |-> se]) :
     st \in {0, 1}, so \in StdoutSamples, se \in StderrSamples}

\* ------------------------------------------------------------------ state
IdleFrame ==
  [pc |-> "idle",
   interfaces_to_handle |-> <<>>,
   peer_entry_contents |-> None,
   more_peer_names |-> None,
   peer_entries |-> None,
   peer_entry_hashmap |-> None,
   wg_accumulator |-> None,
   position |-> 1,
   output_stdout_str |-> <<>>,
   result |-> [tag |-> "none", val |-> <<>>]]

\* what a request has done so far (not program state)
NoHistory ==
  [invocations |-> <<>>,
   handled |-> 0,
   nonzero_exit |-> FALSE,
   failed_step |-> FALSE,
   not_utf8 |-> FALSE,
   merge_failed |-> FALSE,
   after_failure |-> FALSE,
   stdout |-> <<>>,
   injected_for |-> "",
   parser_input |-> <<>>,
   seen |-> {}]

Init ==
  /\ options \in OptionValues
  /\ frame = [p \in Scrapes |-> IdleFrame]
  /\ hist = [p \in Scrapes |-> NoHistory]

\* ---------------------------------------------------------------- helpers
Return(f, tag, val) == [f EXCEPT !.pc = "done", !.result = [tag |-> tag, val |-> val]]

\* main.rs 27-30
InterfacesToHandle(opts) ==
  IF IsSome(opts.interfaces) THEN Unwrap(opts.interfaces) ELSE <<"all">>

\* main.rs 105-118: the command line of the external tool
CommandLine(prepend_sudo, interface_to_handle) ==
  IF prepend_sudo THEN <<"sudo", "wg", "show", interface_to_handle, "dump">>
  ELSE <<"wg", "show", interface_to_handle, "dump">>

\* main.rs 102 with a mistake: the accumulator outlives the request (a
\* shared one): the new request starts from what another request holds
LeakedAccumulator ==
  IF \E q \in Scrapes : IsSome(frame[q].wg_accumulator)
  THEN frame[CHOOSE q \in Scrapes : IsSome(frame[q].wg_accumulator)].wg_accumulator
  ELSE None

\* main.rs 102: let mut wg_accumulator: Option<WireGuard> = None
NewAccumulator == None

\* the (interface, peers) pairs of a snapshot
Pairs(snap) == {<<i, snap[i]>> : i \in DOMAIN snap}

\* ---------------------------------------------------------------- actions
\* a request arrives: perform_request is called (main.rs 23-31)
Request(p) ==
  /\ frame[p].pc = "idle"
  /\ frame' = [frame EXCEPT ![p] =
       [IdleFrame EXCEPT !.pc = "read_config",
                         !.interfaces_to_handle = InterfacesToHandle(options)]]
  /\ hist' = [hist EXCEPT ![p] = NoHistory]
  /\ UNCHANGED options

\* the server runs one request at a time (current_thread runtime, and
\* perform_request never awaits)
SerialRequest(p) ==
  /\ \A q \in Scrapes : frame[q].pc = "idle"
  /\ Request(p)

\* main.rs 33-44: read every config file, join the contents
ReadConfigFiles(p, reads_env) ==
  LET f == frame[p]
      files == options.extract_names_config_files
  IN
  /\ f.pc = "read_config"
  /\ IF ~IsSome(files)
     THEN frame' = [frame EXCEPT ![p] = [f EXCEPT !.pc = "read_names"]]
     ELSE \E reads \in [1..Len(Unwrap(files)) -> reads_env] :
            IF \E i \in DOMAIN reads : ~reads[i].ok
            THEN frame' = [frame EXCEPT ![p] =
                   Return(f, "err", "failed to read peer config file")]
            ELSE frame' = [frame EXCEPT ![p] =
                   [f EXCEPT !.pc = "read_names",
                             !.peer_entry_contents =
                                Some(Concat([i \in DOMAIN reads |-> reads[i].val]))]]
  /\ UNCHANGED <<options, hist>>

\* main.rs 46-55: read the peer names file and parse it as a JSON object
ReadPeerNames(p, reads_env) ==
  LET f == frame[p] IN
  /\ f.pc = "read_names"
  /\ IF ~IsSome(options.peer_names_file)
     THEN frame' = [frame EXCEPT ![p] = [f EXCEPT !.pc = "parse_config"]]
     ELSE \E r \in reads_env :
            IF ~r.ok
            THEN frame' = [frame EXCEPT ![p] =
                   Return(f, "err", "failed to read peer names file")]
            ELSE IF ~from_str(r.val).ok
            THEN frame' = [frame EXCEPT ![p] =
                   Return(f, "err", "failed to parse peer names")]
            ELSE frame' = [frame EXCEPT ![p] =
                   [f EXCEPT !.pc = "parse_config",
                             !.more_peer_names = Some(from_str(r.val).val)]]
  /\ UNCHANGED <<options, hist>>

\* main.rs 57-60: parse the joined config contents
ParsePeerEntries(p) ==
  LET f == frame[p] IN
  /\ f.pc = "parse_config"
  /\ IF ~IsSome(f.peer_entry_contents)
     THEN frame' = [frame EXCEPT ![p] = [f EXCEPT !.pc = "combine"]]
     ELSE LET r == peer_entry_hashmap_try_from(Unwrap(f.peer_entry_contents)) IN
          IF ~r.ok
          THEN frame' = [frame EXCEPT ![p] = Return(f, "err", r.val)]
          ELSE frame' = [frame EXCEPT ![p] =
                 [f EXCEPT !.pc = "combine", !.peer_entries = Some(r.val)]]
  /\ UNCHANGED <<options, hist>>

\* main.rs 62-102: combine the two mappings, start with no accumulator
CombinePeerEntries(p) ==
  LET f == frame[p] IN
  /\ f.pc = "combine"
  /\ frame' = [frame EXCEPT ![p] =
       [f EXCEPT !.pc = "loop",
                 !.peer_entry_hashmap = CombinePeerMaps(f.peer_entries, f.more_peer_names),
                 !.wg_accumulator = NewAccumulator]]
  /\ UNCHANGED <<options, hist>>

\* main.rs 104-131: run the tool for the next interface, decode its output
InvokeTool(p, outputs_env) ==
  LET f == frame[p]
      h == hist[p]
  IN
  /\ f.pc = "loop"
  /\ f.position <= Len(f.interfaces_to_handle)
  /\ \E out \in outputs_env :
       LET interface_to_handle == f.interfaces_to_handle[f.position]
           h1 == [h EXCEPT !.invocations =
                    Append(@, CommandLine(options.prepend_sudo, interface_to_handle)),
                  !.nonzero_exit = @ \/ (out.ok /\ out.val.status # 0),
                  !.not_utf8 = @ \/ (out.ok /\ (~from_utf8(out.val.stdout).ok
                                                \/ ~from_utf8(out.val.stderr).ok)),
                  !.after_failure = @ \/ h.nonzero_exit \/ h.not_utf8 \/ h.failed_step,
                  !.injected_for = "",
                  !.parser_input = <<>>]
       IN
       IF ~out.ok
       THEN /\ frame' = [frame EXCEPT ![p] = Return(f, "err", "io")]
            /\ hist' = [hist EXCEPT ![p] = [h1 EXCEPT !.failed_step = TRUE]]
       ELSE IF ~from_utf8(out.val.stdout).ok \/ ~from_utf8(out.val.stderr).ok
       THEN /\ frame' = [frame EXCEPT ![p] = Return(f, "err", "FromUtf8Error")]
            /\ hist' = [hist EXCEPT ![p] = [h1 EXCEPT !.failed_step = TRUE]]
       ELSE /\ frame' = [frame EXCEPT ![p] =
                 [f EXCEPT !.pc = "parse",
                           !.output_stdout_str = from_utf8(out.val.stdout).val]]
            /\ hist' = [hist EXCEPT ![p] =
                 [h1 EXCEPT !.stdout = from_utf8(out.val.stdout).val]]
  /\ UNCHANGED options

\* main.rs 133-155: inject the interface column, parse, merge into the
\* accumulator (the value merge returns is dropped at main.rs 151)
ParseAndMerge(p) ==
  LET f == frame[p]
      h == hist[p]
      interface_to_handle == f.interfaces_to_handle[f.position]
      text == InjectInterface(interface_to_handle, f.output_stdout_str)
      wg == try_from(text)
      h1 == [h EXCEPT !.injected_for = interface_to_handle, !.parser_input = text]
  IN
  /\ f.pc = "parse"
  /\ IF ~wg.ok
     THEN /\ frame' = [frame EXCEPT ![p] = Return(f, "err", wg.val)]
          /\ hist' = [hist EXCEPT ![p] = [h1 EXCEPT !.failed_step = TRUE]]
     ELSE IF IsSome(f.wg_accumulator)
     THEN \E m \in merge(Unwrap(f.wg_accumulator), wg.val) :
            /\ frame' = [frame EXCEPT ![p] =
                 [f EXCEPT !.pc = "loop",
                           !.position = @ + 1,
                           !.output_stdout_str = text,
                           !.wg_accumulator = Some(m.base)]]
            /\ hist' = [hist EXCEPT ![p] =
                 [h1 EXCEPT !.handled = @ + 1,
                            !.merge_failed = @ \/ ~m.ok,
                            !.seen = @ \cup Pairs(wg.val)]]
     ELSE /\ frame' = [frame EXCEPT ![p] =
               [f EXCEPT !.pc = "loop",
                         !.position = @ + 1,
                         !.output_stdout_str = text,
                         !.wg_accumulator = Some(wg.val)]]
          /\ hist' = [hist EXCEPT ![p] =
               [h1 EXCEPT !.handled = @ + 1, !.seen = @ \cup Pairs(wg.val)]]
  /\ UNCHANGED options

\* main.rs 157-161: render the accumulator, or panic when there is none
Render(p) ==
  LET f == frame[p] IN
  /\ f.pc = "loop"
  /\ f.position > Len(f.interfaces_to_handle)
  /\ IF IsSome(f.wg_accumulator)
     THEN frame' = [frame EXCEPT ![p] =
            Return(f, "ok", render_with_names(Unwrap(f.wg_accumulator),
                                              f.peer_entry_hashmap))]
     ELSE frame' = [frame EXCEPT ![p] = Return(f, "panic", "panic")]
  /\ UNCHANGED <<options, hist>>

\* the caller takes the result; the frame and all its locals are dropped
Respond(p) ==
  /\ frame[p].pc = "done"
  /\ frame' = [frame EXCEPT ![p] = IdleFrame]
  /\ hist' = [hist EXCEPT ![p] = NoHistory]
  /\ UNCHANGED options

\* ---------------------------------------------------------- specifications
\* The server as main.rs 164 builds it: one request at a time, so one frame
\* is ever in use.
Next ==
  \E p \in {"s1"} :
    \/ SerialRequest(p)
    \/ ReadConfigFiles(p, ConfigFileReads)
    \/ ReadPeerNames(p, NamesFileReads)
    \/ ParsePeerEntries(p)
    \/ CombinePeerEntries(p)
    \/ InvokeTool(p, ToolOutputs)
    \/ ParseAndMerge(p)
    \/ Render(p)
    \/ Respond(p)

Spec == Init /\ [][Next]_vars

\* Overlapping requests (a serving layer that runs handlers concurrently):
\* every frame runs on its own, over a small environment.
OverlapOptions ==
  [interfaces : {None, Some(<<"wg0", "all">>)},
   extract_names_config_files : {Some(<<"a.conf">>)},
   peer_names_file : {Some("names.json")},
   prepend_sudo : {FALSE}]
OverlapConfigReads ==
  {Err("io"), Ok(<<PeerSection("K1", "10.0.0.0/24", Some(Name("Alice")))>>)}
OverlapNamesReads ==
  {Ok(JsonObject(<<>>)), Ok(JsonObject(<< <<"K1", "Bob">> >>))}
OverlapToolOutputs ==
  {Err("io"),
   Ok([status |-> 0, stdout |-> DeviceLine \o PeerLine("K1"), stderr |-> <<>>]),
   Ok([status |-> 0, stdout |-> AllDeviceLine("wg1") \o AllPeerLine("wg1", "K2"),
       stderr |-> <<>>])}

InitOverlap ==
  /\ options \in OverlapOptions
  /\ frame = [p \in Scrapes |-> IdleFrame]
  /\ hist = [p \in Scrapes |-> NoHistory]

NextOverlap ==
  \E p \in Scrapes :
    \/ Request(p)
    \/ ReadConfigFiles(p, OverlapConfigReads)
    \/ ReadPeerNames(p, OverlapNamesReads)
    \/ ParsePeerEntries(p)
    \/ CombinePeerEntries(p)
    \/ InvokeTool(p, OverlapToolOutputs)
    \/ ParseAndMerge(p)
    \/ Render(p)
    \/ Respond(p)

SpecOverlap == InitOverlap /\ [][NextOverlap]_vars

\* The interface-column injection over every short stdout: the request is
\* at main.rs 133, the tool has just returned `output_stdout_str`.
StdoutAlphabet == {"x", TAB, NL, CR}

InitInject ==
  /\ options \in [interfaces : {None} \cup {Some(<<i>>) : i \in InterfaceNames \cup {"wg1"}},
                  extract_names_config_files : {None},
                  peer_names_file : {None},
                  prepend_sudo : {FALSE}]
  /\ \E out \in SeqsOf(StdoutAlphabet, 0, MaxLen) :
       /\ frame = [p \in Scrapes |->
            IF p = "s1"
            THEN [IdleFrame EXCEPT !.pc = "parse",
                                   !.interfaces_to_handle = InterfacesToHandle(options),
                                   !.output_stdout_str = out]
            ELSE IdleFrame]
       /\ hist = [p \in Scrapes |->
            IF p = "s1"
            THEN [NoHistory EXCEPT
                    !.invocations =
                       <<CommandLine(FALSE, InterfacesToHandle(options)[1])>>,
                    !.stdout = out]
            ELSE NoHistory]

NextInject ==
  \E p \in {"s1"} :
    \/ ParseAndMerge(p)
    \/ Render(p)
    \/ Respond(p)

SpecInject == InitInject /\ [][NextInject]_vars

\* ------------------------------------------------------------------ claims
\* the request has combined its metadata (main.rs 98 is behind it)
Combined(f) == f.pc \in {"loop", "parse", "done"}

\* split at every "\n": a text with k newlines has k + 1 pieces
RECURSIVE SplitNL(_)
SplitNL(s) ==
  LET n == FindFrom(s, NL, 1) IN
  IF n = 0 THEN <<s>>
  ELSE <<SubSeq(s, 1, n - 1)>> \o SplitNL(SubSeq(s, n + 1, Len(s)))

\* C1: for every public key present both in the config-derived mapping and in
\* the name mapping, the combined entry has the plain name of the name mapping
\* and the allowed-IPs of the config-derived entry.
C1_KeepsAllowedIps ==
  \A p \in Scrapes :
    LET f == frame[p] IN
    (Combined(f) /\ IsSome(f.peer_entries) /\ IsSome(f.more_peer_names)) =>
      \A k \in (DOMAIN Unwrap(f.peer_entries)) \cap (DOMAIN Unwrap(f.more_peer_names)) :
        /\ Unwrap(f.peer_entry_hashmap)[k].friendly_description
             = Some(Name(Unwrap(f.more_peer_names)[k]))
        /\ Unwrap(f.peer_entry_hashmap)[k].allowed_ips
             = Unwrap(f.peer_entries)[k].allowed_ips

\* C2: a document is returned only after every requested interface has been
\* invoked, decoded, parsed and merged successfully; any failure on the way
\* ends the request with an error.
C2_NoPartialOutput ==
  \A p \in Scrapes :
    frame[p].result.tag = "ok" =>
      /\ Len(hist[p].invocations) = Len(frame[p].interfaces_to_handle)
      /\ hist[p].handled = Len(frame[p].interfaces_to_handle)
      /\ ~hist[p].failed_step
      /\ ~hist[p].merge_failed

\* C3: a request in which a merge met an interface the accumulator already
\* held (DuplicateInterface) ends with an error.
C3_DuplicateInterfaceFails ==
  \A p \in Scrapes :
    (frame[p].pc = "done" /\ hist[p].merge_failed) => frame[p].result.tag = "err"

\* C4: a request in which an invocation of the tool exited with a non-zero
\* status, or printed bytes that are not UTF-8, ends with an error and no
\* document.
C4_ToolFailureFails ==
  \A p \in Scrapes :
    (frame[p].pc = "done" /\ (hist[p].nonzero_exit \/ hist[p].not_utf8)) =>
      frame[p].result.tag = "err"

\* C5: with no config files configured, the combined mapping has exactly the
\* keys of the name mapping, each with its plain name and empty allowed-IPs.
C5_NameMappingOnly ==
  \A p \in Scrapes :
    LET f == frame[p] IN
    (Combined(f) /\ ~IsSome(options.extract_names_config_files)
       /\ IsSome(f.more_peer_names)) =>
      /\ IsSome(f.peer_entry_hashmap)
      /\ DOMAIN Unwrap(f.peer_entry_hashmap) = DOMAIN Unwrap(f.more_peer_names)
      /\ \A k \in DOMAIN Unwrap(f.more_peer_names) :
           /\ Unwrap(f.peer_entry_hashmap)[k].friendly_description
                = Some(Name(Unwrap(f.more_peer_names)[k]))
           /\ Unwrap(f.peer_entry_hashmap)[k].allowed_ips = ""
           /\ Unwrap(f.peer_entry_hashmap)[k].public_key = k

C5_Witness ==
  /\ ~IsSome(options.extract_names_config_files)
  /\ frame["s1"].result.tag = "ok"
  /\ IsSome(frame["s1"].more_peer_names)
  /\ DOMAIN Unwrap(frame["s1"].more_peer_names) = {"K1", "K2"}
  /\ \E l \in frame["s1"].result.val : l.friendly = Some(Name("Dave"))

\* C6: with neither metadata source configured, the metadata stage ends
\* without an error and with no mapping: the request reaches the invocation
\* loop, an error can only come from the loop, and a document is rendered
\* with no friendly metadata on any peer.
C6_NoSources ==
  \A p \in Scrapes :
    LET f == frame[p] IN
    (~IsSome(options.extract_names_config_files) /\ ~IsSome(options.peer_names_file)) =>
      /\ Combined(f) => f.peer_entry_hashmap = None
      /\ f.result.tag = "err" => hist[p].failed_step
      /\ f.result.tag = "ok" => \A l \in f.result.val : l.friendly = None

C6_Witness ==
  /\ ~IsSome(options.extract_names_config_files)
  /\ ~IsSome(options.peer_names_file)
  /\ frame["s1"].result.tag = "ok"
  /\ frame["s1"].result.val # {}

\* C7: for an interface other than "all", the text handed to the parser is,
\* line for line and in order, the interface, a tab and the line of the
\* tool's stdout; for "all" it is the stdout itself.
C7_InterfaceColumn ==
  \A p \in Scrapes :
    LET h == hist[p]
        ls == lines(h.stdout)
        pieces == SplitNL(h.parser_input)
    IN
    h.injected_for # "" =>
      IF h.injected_for = "all" THEN h.parser_input = h.stdout
      ELSE /\ Len(pieces) = Len(ls) + 1
           /\ pieces[Len(pieces)] = <<>>
           /\ \A i \in 1..Len(ls) : pieces[i] = <<h.injected_for, TAB>> \o ls[i]

C7_Witness ==
  /\ hist["s1"].injected_for = "wg0"
  /\ hist["s1"].stdout = <<"x", CR, NL, NL>>
  /\ hist["s1"].parser_input = <<"wg0", TAB, "x", NL, "wg0", TAB, NL>>

\* C8: the tool is invoked once per requested interface, in list order (once
\* with "all" when no list is configured), the next invocation starting only
\* after the previous output was parsed and merged; nothing is retried, and
\* no invocation follows one that failed (could not be started, exited with a
\* non-zero status, or printed bytes that are not UTF-8).
C8_InvocationOrder ==
  \A p \in Scrapes :
    LET f == frame[p]
        h == hist[p]
        want == IF IsSome(options.interfaces) THEN Unwrap(options.interfaces)
                ELSE <<"all">>
    IN
    /\ Len(h.invocations) <= Len(want)
    /\ \A i \in 1..Len(h.invocations) :
         h.invocations[i] = CommandLine(options.prepend_sudo, want[i])
    /\ h.handled <= Len(h.invocations)
    /\ Len(h.invocations) <= h.handled + 1
    /\ f.pc = "loop" => Len(h.invocations) = h.handled
    /\ f.result.tag = "ok" => h.handled = Len(want)
    /\ ~h.after_failure

\* C9: a request's accumulator, metadata and result are built from what that
\* request itself read, whatever the other requests do; a request that has
\* not reached the loop holds no accumulator and a finished one holds nothing.
C9_Independence ==
  \A p \in Scrapes :
    LET f == frame[p]
        h == hist[p]
    IN
    /\ f.pc = "idle" => f = IdleFrame
    /\ f.pc \in {"read_config", "read_names", "parse_config", "combine"} =>
         f.wg_accumulator = None
    /\ IsSome(f.wg_accumulator) => Pairs(Unwrap(f.wg_accumulator)) \subseteq h.seen
    /\ f.pc \in {"loop", "parse"} =>
         f.peer_entry_hashmap = CombinePeerMaps(f.peer_entries, f.more_peer_names)
    /\ f.result.tag = "ok" =>
         f.result.val = render_with_names(Unwrap(f.wg_accumulator), f.peer_entry_hashmap)

C9_Witness ==
  /\ frame["s1"].pc = "loop"
  /\ frame["s2"].pc = "parse"
  /\ IsSome(frame["s1"].wg_accumulator)
  /\ IsSome(frame["s2"].wg_accumulator)
  /\ frame["s1"].wg_accumulator # frame["s2"].wg_accumulator
  /\ frame["s1"].peer_entry_hashmap # frame["s2"].peer_entry_hashmap

\* C10: perform_request ends with a document or an error, never a panic, and
\* a document comes from an accumulator that holds at least one invocation's
\* snapshot.
C10_NeverPanics ==
  \A p \in Scrapes :
    /\ frame[p].result.tag # "panic"
    /\ frame[p].result.tag = "ok" => hist[p].handled >= 1

====
